---- MODULE Spec2Model ----
(***************************************************************************)
(* State-machine model of tooling/fetch_all_workspace_metadata.py: the     *)
(* retrying GET wrapper, the five collectors, the workspace resolver and   *)
(* main.  The program is single-threaded; pc is the position of its one    *)
(* thread of control and rg is the robust_get call it is blocked in.       *)
(***************************************************************************)
EXTENDS Integers, Sequences, FiniteSets, TLC

VARIABLES
    remote,     \* what the workspace's REST API serves (fixed during a run)
    env,        \* config.json and the az CLI's result
    args,       \* (workspace_url, token) handed to the collectors
    pc,         \* position of the single thread of control
    rg,         \* the robust_get call in progress / its result
    reqlog,     \* every robust_get call made so far, with how it ended
    cl,         \* locals of extract_cluster_info
    uc,         \* locals of collect_unity_catalog_structure
    jb,         \* locals of list_jobs_and_runs
    nbk,        \* locals of list_notebooks_for_workspace (and traverse frames)
    ret,        \* value returned by the collector that last returned
    mainv,      \* local variables of main, by name
    fs,         \* files written, by name
    console     \* lines printed

vars == <<remote, env, args, pc, rg, reqlog, cl, uc, jb, nbk, ret, mainv, fs, console>>

-----------------------------------------------------------------------------
(* Python values *)

NoneVal == "None"

EmptyDict == <<>>

\* dict.get(k, default)
Get(d, k, default) == IF k \in DOMAIN d THEN d[k] ELSE default

\* d[k] = v
Put(d, k, v) == (k :> v) @@ d

\* str.lower() on the letters the modelled names use; a name is its sequence
\* of characters
LowerMap ==
    ("I" :> "i") @@ ("N" :> "n") @@ ("F" :> "f") @@ ("O" :> "o") @@
    ("R" :> "r") @@ ("M" :> "m") @@ ("A" :> "a") @@ ("T" :> "t") @@
    ("S" :> "s") @@ ("C" :> "c") @@ ("H" :> "h") @@ ("E" :> "e") @@
    ("Q" :> "q") @@ ("L" :> "l") @@ ("U" :> "u") @@ ("P" :> "p")

LowerChar(c) == IF c \in DOMAIN LowerMap THEN LowerMap[c] ELSE c

Lower(s) == [i \in DOMAIN s |-> LowerChar(s[i])]

-----------------------------------------------------------------------------
(* robust_get: requests.get + raise_for_status under tenacity's retry *)

\* faulty variant: one attempt more before giving up
stop_after_attempt_plus_one == 3 + 1

stop_after_attempt == 3

\* What one requests.get can end in: a transport error raised by the call,
\* or a final response with a status code.
AttemptOutcomes ==
    {[exc |-> "ConnectionError"]} \cup {[status_code |-> s] : s \in {200, 304, 404, 503}}

\* response.raise_for_status(): raises for 4xx and 5xx only
raise_for_status(o) == o.status_code >= 400 /\ o.status_code < 600

\* the attempt raised (inside requests.get or in raise_for_status)
AttemptRaises(o) == "exc" \in DOMAIN o \/ raise_for_status(o)

Idle == [state |-> "idle"]

\* a robust_get(url, headers, params) call begins
Call(req) ==
    /\ rg' = [state |-> "pending", req |-> req, attempt_number |-> 0]
    /\ reqlog' = Append(reqlog, [req |-> req, result |-> "pending"])

Headers == [Authorization |-> <<"Bearer", args.token>>]

Request(api, params) ==
    [host |-> args.workspace_url, api |-> api, headers |-> Headers, params |-> params]

\* the JSON document the API serves for a request
Respond(req) ==
    CASE req.api = "/api/2.0/clusters/list" -> remote.clusters
      [] req.api = "/api/2.0/libraries/all-cluster-statuses" -> remote.statuses
      [] req.api = "/api/2.0/sql/warehouses" -> remote.warehouses
      [] req.api = "/api/2.1/unity-catalog/catalogs" -> remote.catalogs
      [] req.api = "/api/2.1/unity-catalog/schemas" ->
            Get(remote.schemas, req.params.catalog_name, EmptyDict)
      [] req.api = "/api/2.1/unity-catalog/tables" ->
            Get(remote.tables, <<req.params.catalog_name, req.params.schema_name>>, EmptyDict)
      [] req.api = "/api/2.1/jobs/list" -> remote.jobs
      [] req.api = "/api/2.1/jobs/get" ->
            Get(remote.job_details, req.params.job_id, EmptyDict)
      [] req.api = "/api/2.1/jobs/runs/list" ->
            LET all == Get(remote.runs, req.params.job_id, <<>>)
                n == IF Len(all) < req.params.limit THEN Len(all) ELSE req.params.limit
            IN  [runs |-> SubSeq(all, 1, n)]
      [] req.api = "/api/2.0/workspace/list" ->
            Get(remote.tree, req.params.path, EmptyDict)
      [] req.api = "/api/2.0/workspace/get-status" ->
            Get(remote.status, req.params.path, EmptyDict)
      [] req.api = "/api/2.0/workspace/export" ->
            Get(remote.export, req.params.path, EmptyDict)

\* One attempt of the call in progress.  tenacity re-runs the function after
\* wait_fixed(2) while it raises and fewer than stop_after_attempt attempts
\* were made; then it raises RetryError.
RobustGetAttempt ==
    /\ rg.state = "pending"
    /\ \E o \in AttemptOutcomes :
          LET n == rg.attempt_number + 1 IN
          /\ rg' = IF ~AttemptRaises(o)
                     THEN [state |-> "returned", req |-> rg.req, attempt_number |-> n,
                           outcome |-> o,
                           response |-> IF o.status_code >= 200 /\ o.status_code < 300
                                          THEN [status_code |-> o.status_code,
                                                json |-> Respond(rg.req)]
                                          ELSE [status_code |-> o.status_code]]
                     ELSE IF n >= stop_after_attempt
                       THEN [state |-> "raised", req |-> rg.req, attempt_number |-> n,
                             outcome |-> o]
                       ELSE [state |-> "pending", req |-> rg.req, attempt_number |-> n,
                             outcome |-> o]
          /\ reqlog' = [reqlog EXCEPT ![Len(reqlog)].result =
                            IF rg'.state = "pending" THEN "pending"
                            ELSE IF rg'.state = "returned" /\ "json" \in DOMAIN rg'.response
                              THEN "ok"
                            ELSE "fail"]
    /\ UNCHANGED <<remote, env, args, pc, cl, uc, jb, nbk, ret, mainv, fs, console>>

\* the call in progress has ended
Done == rg.state \in {"returned", "raised"}

\* `robust_get(...).json()` raises: robust_get raised, or the response it
\* returned has no JSON body
Failed == rg.state = "raised" \/ "json" \notin DOMAIN rg.response

Json == rg.response.json

\* the exception `robust_get(...).json()` raises when it fails
Exc == IF rg.state = "raised" THEN "RetryError" ELSE "JSONDecodeError"

\* faulty variant: a handler that catches HTTP errors only
except_HTTPError(e) == e = "HTTPError"

\* `except Exception`: the classes it catches
except_Exception(e) ==
    e \in {"RetryError", "JSONDecodeError", "HTTPError", "ConnectionError",
           "KeyError", "CalledProcessError", "FileNotFoundError"}

\* a bare `except:` catches everything
except_bare(e) == TRUE

\* an exception no handler caught leaves main with a traceback
Uncaught(e) ==
    /\ pc' = "crashed"
    /\ rg' = Idle
    /\ mainv' = Put(mainv, "exception", e)
    /\ UNCHANGED <<remote, env, args, reqlog, cl, uc, jb, nbk, ret, fs, console>>

-----------------------------------------------------------------------------
(* Cluster + library collector *)

\* list_databricks_clusters on the finished call
list_databricks_clusters == IF Failed THEN <<>> ELSE Get(Json, "clusters", <<>>)

\* list_all_cluster_libraries on the finished call
list_all_cluster_libraries == IF Failed THEN <<>> ELSE Get(Json, "statuses", <<>>)

\* the descriptor built for one library_statuses entry (first key wins)
ShapeLibrary(lib_status) ==
    LET lib == Get(lib_status, "library", EmptyDict)
        info == [status |-> Get(lib_status, "status", "UNKNOWN")]
    IN  IF "jar" \in DOMAIN lib THEN info @@ [type |-> "jar", path |-> lib.jar]
        ELSE IF "egg" \in DOMAIN lib THEN info @@ [type |-> "egg", path |-> lib.egg]
        ELSE IF "whl" \in DOMAIN lib THEN info @@ [type |-> "whl", path |-> lib.whl]
        ELSE IF "maven" \in DOMAIN lib
          THEN info @@ [type |-> "maven", coordinates |-> lib.maven.coordinates]
        ELSE IF "pypi" \in DOMAIN lib
          THEN info @@ [type |-> "pypi", package |-> lib.pypi.package]
        ELSE info

ShapeLibraries(status) ==
    LET ls == Get(status, "library_statuses", <<>>)
    IN  [i \in DOMAIN ls |-> ShapeLibrary(ls[i])]

\* the loop that fills lib_map
RECURSIVE BuildLibMap(_, _)
BuildLibMap(library_statuses, lib_map) ==
    IF library_statuses = <<>> THEN lib_map
    ELSE LET status == Head(library_statuses)
         IN  BuildLibMap(Tail(library_statuses),
                         Put(lib_map, Get(status, "cluster_id", NoneVal),
                             ShapeLibraries(status)))

\* the record stored for one cluster
ClusterDetail(cluster, lib_map) ==
    [cluster_id |-> cluster.cluster_id,
     compute_details |->
        [state |-> Get(cluster, "state", NoneVal),
         spark_version |-> Get(cluster, "spark_version", NoneVal),
         node_type_id |-> Get(cluster, "node_type_id", NoneVal),
         driver_node_type_id |-> Get(cluster, "driver_node_type_id", NoneVal),
         cluster_memory_mb |-> Get(cluster, "cluster_memory_mb", NoneVal),
         cluster_cores |-> Get(cluster, "cluster_cores", NoneVal),
         runtime_engine |-> Get(cluster, "runtime_engine", NoneVal),
         effective_spark_version |-> Get(cluster, "effective_spark_version", NoneVal),
         release_version |-> Get(cluster, "release_version", NoneVal)],
     custom_libraries |-> Get(lib_map, cluster.cluster_id, <<>>)]

\* the key a cluster's record is stored under in details
DetailKey(cluster) == cluster.cluster_name

\* the loop that fills details
RECURSIVE BuildDetails(_, _, _)
BuildDetails(clusters, lib_map, details) ==
    IF clusters = <<>> THEN details
    ELSE BuildDetails(Tail(clusters), lib_map,
                      Put(details, DetailKey(Head(clusters)),
                          ClusterDetail(Head(clusters), lib_map)))

\* faulty variant: all-or-nothing: nothing is returned when the library fetch failed
extract_all_or_nothing(clusters, library_statuses) ==
    IF Failed THEN EmptyDict
    ELSE BuildDetails(clusters, BuildLibMap(library_statuses, EmptyDict), EmptyDict)

\* what extract_cluster_info computes from the two lists
extract_cluster_info(clusters, library_statuses) ==
    BuildDetails(clusters, BuildLibMap(library_statuses, EmptyDict), EmptyDict)

\* extract_cluster_info calls list_databricks_clusters
ClStart ==
    /\ pc = "cl_start"
    /\ Call(Request("/api/2.0/clusters/list", EmptyDict))
    /\ cl' = [clusters |-> <<>>, library_statuses |-> <<>>]
    /\ pc' = "cl_clusters"
    /\ UNCHANGED <<remote, env, args, uc, jb, nbk, ret, mainv, fs, console>>

\* list_databricks_clusters returns; list_all_cluster_libraries is called
ClGotClusters ==
    /\ pc = "cl_clusters" /\ Done
    /\ IF Failed /\ ~except_Exception(Exc) THEN Uncaught(Exc)
       ELSE /\ cl' = [cl EXCEPT !.clusters = list_databricks_clusters]
            /\ console' = IF Failed THEN Append(console, <<"Error fetching clusters">>)
                           ELSE console
            /\ Call(Request("/api/2.0/libraries/all-cluster-statuses", EmptyDict))
            /\ pc' = "cl_libs"
            /\ UNCHANGED <<remote, env, args, uc, jb, nbk, ret, mainv, fs>>

\* list_all_cluster_libraries returns; the join is computed and returned
ClGotLibs ==
    /\ pc = "cl_libs" /\ Done
    /\ IF Failed /\ ~except_Exception(Exc) THEN Uncaught(Exc)
       ELSE /\ LET library_statuses == list_all_cluster_libraries
               IN  /\ cl' = [cl EXCEPT !.library_statuses = library_statuses]
                   /\ ret' = extract_cluster_info(cl.clusters, library_statuses)
            /\ console' = IF Failed THEN Append(console, <<"Error fetching libraries">>)
                           ELSE console
            /\ rg' = Idle
            /\ pc' = "cl_return"
            /\ UNCHANGED <<remote, env, args, reqlog, uc, jb, nbk, mainv, fs>>

-----------------------------------------------------------------------------
(* SQL warehouses *)

ShapeWarehouse(wh) ==
    [name |-> Get(wh, "name", "N/A"),
     state |-> Get(wh, "state", "UNKNOWN"),
     cluster_size |-> Get(wh, "cluster_size", "N/A")]

\* list_sql_warehouses on the finished call
list_sql_warehouses ==
    IF Failed THEN <<>>
    ELSE LET warehouses == Get(Json, "warehouses", <<>>)
         IN  [i \in DOMAIN warehouses |-> ShapeWarehouse(warehouses[i])]

WhStart ==
    /\ pc = "wh_start"
    /\ Call(Request("/api/2.0/sql/warehouses", EmptyDict))
    /\ pc' = "wh_list"
    /\ UNCHANGED <<remote, env, args, cl, uc, jb, nbk, ret, mainv, fs, console>>

WhGotList ==
    /\ pc = "wh_list" /\ Done
    /\ IF Failed /\ ~except_Exception(Exc) THEN Uncaught(Exc)
       ELSE /\ ret' = list_sql_warehouses
            /\ console' = IF Failed THEN Append(console, <<"Failed to fetch warehouses">>)
                           ELSE console
            /\ rg' = Idle
            /\ pc' = "wh_return"
            /\ UNCHANGED <<remote, env, args, reqlog, cl, uc, jb, nbk, mainv, fs>>

-----------------------------------------------------------------------------
(* Unity Catalog walker *)

INFORMATION_SCHEMA ==
    <<"i", "n", "f", "o", "r", "m", "a", "t", "i", "o", "n", "_",
      "s", "c", "h", "e", "m", "a">>

\* faulty variant: the comparison without lower()
IsSystemSchemaCaseSensitive(schema_name) == schema_name = INFORMATION_SCHEMA

\* the test that skips a schema
IsSystemSchema(schema_name) == Lower(schema_name) = INFORMATION_SCHEMA

CatalogEntry(catalog_name, schema_name, table) ==
    [catalog |-> catalog_name, schema |-> schema_name,
     table |-> table.name, table_type |-> Get(table, "table_type", NoneVal)]

\* faulty variant: the except clause drops what was accumulated
UcExceptResultEmpty == <<>>

\* what the function returns from its except clause
UcExceptResult == uc.catalog_data

\* the except clause of collect_unity_catalog_structure, then its return
UcExcept ==
    /\ console' = Append(console, <<"Failed to fetch Unity Catalog data">>)
    /\ ret' = UcExceptResult
    /\ rg' = Idle
    /\ pc' = "uc_return"
    /\ UNCHANGED <<remote, env, args, reqlog, cl, uc, jb, nbk, mainv, fs>>

UcStart ==
    /\ pc = "uc_start"
    /\ uc' = [catalog_data |-> <<>>, catalogs |-> <<>>, ci |-> 0,
              schemas |-> <<>>, si |-> 0]
    /\ Call(Request("/api/2.1/unity-catalog/catalogs", EmptyDict))
    /\ pc' = "uc_catalogs"
    /\ UNCHANGED <<remote, env, args, cl, jb, nbk, ret, mainv, fs, console>>

UcGotCatalogs ==
    /\ pc = "uc_catalogs" /\ Done
    /\ IF Failed /\ ~except_Exception(Exc) THEN Uncaught(Exc)
       ELSE IF Failed THEN UcExcept
       ELSE /\ uc' = [uc EXCEPT !.catalogs = Get(Json, "catalogs", <<>>), !.ci = 1]
            /\ rg' = Idle
            /\ pc' = "uc_catalog_loop"
            /\ UNCHANGED <<remote, env, args, reqlog, cl, jb, nbk, ret, mainv, fs, console>>

\* `for catalog in catalogs`: the next catalog's schemas are requested, or
\* the walk is over and catalog_data is returned
UcCatalogLoop ==
    /\ pc = "uc_catalog_loop"
    /\ IF uc.ci > Len(uc.catalogs)
         THEN /\ ret' = uc.catalog_data
              /\ pc' = "uc_return"
              /\ UNCHANGED <<rg, reqlog>>
         ELSE /\ Call(Request("/api/2.1/unity-catalog/schemas",
                              [catalog_name |-> uc.catalogs[uc.ci].name]))
              /\ pc' = "uc_schemas"
              /\ UNCHANGED ret
    /\ UNCHANGED <<remote, env, args, cl, uc, jb, nbk, mainv, fs, console>>

UcGotSchemas ==
    /\ pc = "uc_schemas" /\ Done
    /\ IF Failed /\ ~except_Exception(Exc) THEN Uncaught(Exc)
       ELSE IF Failed THEN UcExcept
       ELSE /\ uc' = [uc EXCEPT !.schemas = Get(Json, "schemas", <<>>), !.si = 1]
            /\ rg' = Idle
            /\ pc' = "uc_schema_loop"
            /\ UNCHANGED <<remote, env, args, reqlog, cl, jb, nbk, ret, mainv, fs, console>>

\* `for schema in schemas`: a system schema is skipped, another schema's
\* tables are requested, and after the last schema the catalog loop goes on
UcSchemaLoop ==
    /\ pc = "uc_schema_loop"
    /\ IF uc.si > Len(uc.schemas)
         THEN /\ uc' = [uc EXCEPT !.ci = @ + 1]
              /\ pc' = "uc_catalog_loop"
              /\ UNCHANGED <<rg, reqlog>>
         ELSE IF IsSystemSchema(uc.schemas[uc.si].name)
         THEN /\ uc' = [uc EXCEPT !.si = @ + 1]
              /\ pc' = "uc_schema_loop"
              /\ UNCHANGED <<rg, reqlog>>
         ELSE /\ Call(Request("/api/2.1/unity-catalog/tables",
                              [catalog_name |-> uc.catalogs[uc.ci].name,
                               schema_name |-> uc.schemas[uc.si].name]))
              /\ pc' = "uc_tables"
              /\ UNCHANGED uc
    /\ UNCHANGED <<remote, env, args, cl, jb, nbk, ret, mainv, fs, console>>

UcGotTables ==
    /\ pc = "uc_tables" /\ Done
    /\ IF Failed /\ ~except_Exception(Exc) THEN Uncaught(Exc)
       ELSE IF Failed THEN UcExcept
       ELSE /\ LET tables == Get(Json, "tables", <<>>)
                   rows == [i \in DOMAIN tables |->
                               CatalogEntry(uc.catalogs[uc.ci].name,
                                            uc.schemas[uc.si].name, tables[i])]
               IN  uc' = [uc EXCEPT !.catalog_data = @ \o rows, !.si = @ + 1]
            /\ rg' = Idle
            /\ pc' = "uc_schema_loop"
            /\ UNCHANGED <<remote, env, args, reqlog, cl, jb, nbk, ret, mainv, fs, console>>

-----------------------------------------------------------------------------
(* Jobs and runs *)

RunsLimit == 3

\* datetime.fromtimestamp(ms / 1000, tz=timezone.utc).isoformat()
IsoFormatUtc(ms) == [utc_seconds |-> ms \div 1000, millis |-> ms % 1000, offset |-> "+00:00"]

ShapeRun(run) ==
    [run_id |-> Get(run, "run_id", NoneVal),
     state |-> Get(Get(run, "state", EmptyDict), "life_cycle_state", NoneVal),
     result_state |-> Get(Get(run, "state", EmptyDict), "result_state", NoneVal),
     start_time |-> IsoFormatUtc(Get(run, "start_time", 0)),
     end_time |-> IF Get(run, "end_time", 0) # 0
                    THEN <<IsoFormatUtc(run.end_time)>> ELSE <<>>]   \* <<>>: None

\* the except clause of list_jobs_and_runs, then its return
JbExcept ==
    /\ console' = Append(console, <<"Failed to fetch job data">>)
    /\ ret' = jb.jobs_data
    /\ rg' = Idle
    /\ pc' = "jb_return"
    /\ UNCHANGED <<remote, env, args, reqlog, cl, uc, jb, nbk, mainv, fs>>

JbStart ==
    /\ pc = "jb_start"
    /\ jb' = [jobs_data |-> <<>>, job_list |-> <<>>, ji |-> 0, settings |-> EmptyDict]
    /\ Call(Request("/api/2.1/jobs/list", EmptyDict))
    /\ pc' = "jb_list"
    /\ UNCHANGED <<remote, env, args, cl, uc, nbk, ret, mainv, fs, console>>

JbGotList ==
    /\ pc = "jb_list" /\ Done
    /\ IF Failed /\ ~except_Exception(Exc) THEN Uncaught(Exc)
       ELSE IF Failed THEN JbExcept
       ELSE /\ jb' = [jb EXCEPT !.job_list = Get(Json, "jobs", <<>>), !.ji = 1]
            /\ rg' = Idle
            /\ pc' = "jb_loop"
            /\ UNCHANGED <<remote, env, args, reqlog, cl, uc, nbk, ret, mainv, fs, console>>

\* `for job_summary in job_list`: jobs/get for the next job, or return
JbLoop ==
    /\ pc = "jb_loop"
    /\ IF jb.ji > Len(jb.job_list)
         THEN /\ ret' = jb.jobs_data
              /\ pc' = "jb_return"
              /\ UNCHANGED <<rg, reqlog>>
         ELSE /\ Call(Request("/api/2.1/jobs/get",
                              [job_id |-> Get(jb.job_list[jb.ji], "job_id", NoneVal)]))
              /\ pc' = "jb_get"
              /\ UNCHANGED ret
    /\ UNCHANGED <<remote, env, args, cl, uc, jb, nbk, mainv, fs, console>>

JbGotDetail ==
    /\ pc = "jb_get" /\ Done
    /\ IF Failed /\ ~except_Exception(Exc) THEN Uncaught(Exc)
       ELSE IF Failed THEN JbExcept
       ELSE /\ jb' = [jb EXCEPT !.settings = Get(Json, "settings", EmptyDict)]
            /\ Call(Request("/api/2.1/jobs/runs/list",
                            [job_id |-> Get(jb.job_list[jb.ji], "job_id", NoneVal),
                             limit |-> RunsLimit]))
            /\ pc' = "jb_runs"
            /\ UNCHANGED <<remote, env, args, cl, uc, nbk, ret, mainv, fs, console>>

JbGotRuns ==
    /\ pc = "jb_runs" /\ Done
    /\ IF Failed /\ ~except_Exception(Exc) THEN Uncaught(Exc)
       ELSE IF Failed THEN JbExcept
       ELSE /\ LET runs == Get(Json, "runs", <<>>)
                   run_details == [i \in DOMAIN runs |-> ShapeRun(runs[i])]
                   job == [job_id |-> Get(jb.job_list[jb.ji], "job_id", NoneVal),
                           name |-> Get(jb.settings, "name", NoneVal),
                           settings |-> jb.settings,
                           runs |-> run_details]
               IN  jb' = [jb EXCEPT !.jobs_data = Append(@, job), !.ji = @ + 1]
            /\ rg' = Idle
            /\ pc' = "jb_loop"
            /\ UNCHANGED <<remote, env, args, reqlog, cl, uc, nbk, ret, mainv, fs, console>>

-----------------------------------------------------------------------------
(* Notebooks *)

\* a magic word is its sequence of characters
lang_magics ==
    { <<"p", "y", "t", "h", "o", "n">>, <<"s", "q", "l">>,
      <<"s", "c", "a", "l", "a">>, <<"r">> }
other_magics ==
    { <<"f", "s">>, <<"s", "h">>, <<"m", "d">>, <<"r", "u", "n">>, <<"p", "i", "p">> }

\* detect_embedded_magics.  The content is base64 of some text or not valid
\* base64 (b64decode raises, the function returns two empty lists).  The
\* text is its lines, a line its pieces; a piece with pct set is a '%'
\* followed by the word, which is what the pattern's findall returns from
\* line.lower().  The two lists come from sets: their order is not kept.
detect_embedded_magics(base64_content) ==
    IF "b64" \notin DOMAIN base64_content
      THEN [langs |-> {}, others |-> {}]
    ELSE LET lines == base64_content.b64
             matches == UNION { {Lower(lines[i][j].word) :
                                    j \in {k \in DOMAIN lines[i] : lines[i][k].pct}} :
                                i \in DOMAIN lines }
         IN  [langs |-> matches \cap lang_magics, others |-> matches \cap other_magics]

EmptyString == [b64 |-> <<>>]

\* faulty variant: lang starts as None instead of "unknown"
LanguageOfNone == IF Failed THEN NoneVal ELSE Get(Json, "language", "unknown")

\* lang after the get-status try block, on the finished call
LanguageOf == IF Failed THEN "unknown" ELSE Get(Json, "language", "unknown")

\* (embedded_langs, magics) after the export try block, on the finished call
MagicsOf ==
    IF Failed THEN [langs |-> {}, others |-> {}]
    ELSE detect_embedded_magics(Get(Json, "content", EmptyString))

NbStart ==
    /\ pc = "nb_start"
    /\ nbk' = [notebooks |-> <<>>, stack |-> <<>>, obj_path |-> NoneVal, lang |-> NoneVal]
    /\ Call(Request("/api/2.0/workspace/list", [path |-> "/"]))
    /\ pc' = "nb_list"
    /\ UNCHANGED <<remote, env, args, cl, uc, jb, ret, mainv, fs, console>>

\* traverse: the listing arrives and its loop begins, or the except clause
\* returns from this traverse call
NbGotList ==
    /\ pc = "nb_list" /\ Done
    /\ IF Failed /\ ~except_bare(Exc) THEN Uncaught(Exc)
       ELSE /\ nbk' = IF Failed THEN nbk
                      ELSE [nbk EXCEPT !.stack =
                               Append(@, [objects |-> Get(Json, "objects", <<>>), idx |-> 1])]
            /\ rg' = Idle
            /\ pc' = "nb_loop"
            /\ UNCHANGED <<remote, env, args, reqlog, cl, uc, jb, ret, mainv, fs, console>>

\* `for obj in data.get("objects", [])` of the innermost traverse call
NbLoop ==
    /\ pc = "nb_loop"
    /\ IF nbk.stack = <<>>
         THEN /\ ret' = nbk.notebooks
              /\ pc' = "nb_return"
              /\ UNCHANGED <<rg, reqlog, nbk>>
         ELSE LET depth == Len(nbk.stack)
                  top == nbk.stack[depth]
              IN  IF top.idx > Len(top.objects)
                    THEN /\ nbk' = [nbk EXCEPT !.stack = SubSeq(@, 1, depth - 1)]
                         /\ pc' = "nb_loop"
                         /\ UNCHANGED <<rg, reqlog, ret>>
                    ELSE LET obj == top.objects[top.idx]
                             advanced == [nbk.stack EXCEPT ![depth].idx = @ + 1]
                         IN  IF obj.object_type = "NOTEBOOK"
                               THEN /\ nbk' = [nbk EXCEPT !.stack = advanced,
                                                          !.obj_path = obj.path,
                                                          !.lang = "unknown"]
                                    /\ Call(Request("/api/2.0/workspace/get-status",
                                                    [path |-> obj.path]))
                                    /\ pc' = "nb_status"
                                    /\ UNCHANGED ret
                             ELSE IF obj.object_type = "DIRECTORY"
                               THEN /\ nbk' = [nbk EXCEPT !.stack = advanced]
                                    /\ Call(Request("/api/2.0/workspace/list",
                                                    [path |-> obj.path]))
                                    /\ pc' = "nb_list"
                                    /\ UNCHANGED ret
                             ELSE /\ nbk' = [nbk EXCEPT !.stack = advanced]
                                  /\ pc' = "nb_loop"
                                  /\ UNCHANGED <<rg, reqlog, ret>>
    /\ UNCHANGED <<remote, env, args, cl, uc, jb, mainv, fs, console>>

NbGotStatus ==
    /\ pc = "nb_status" /\ Done
    /\ IF Failed /\ ~except_bare(Exc) THEN Uncaught(Exc)
       ELSE /\ nbk' = [nbk EXCEPT !.lang = LanguageOf]
            /\ Call(Request("/api/2.0/workspace/export",
                            [path |-> nbk.obj_path, format |-> "SOURCE"]))
            /\ pc' = "nb_export"
            /\ UNCHANGED <<remote, env, args, cl, uc, jb, ret, mainv, fs, console>>

NbGotExport ==
    /\ pc = "nb_export" /\ Done
    /\ IF Failed /\ ~except_bare(Exc) THEN Uncaught(Exc)
       ELSE /\ nbk' = [nbk EXCEPT !.notebooks =
                         Append(@, [path |-> nbk.obj_path,
                                    default_language |-> nbk.lang,
                                    embedded_languages |-> MagicsOf.langs,
                                    other_magics |-> MagicsOf.others])]
            /\ rg' = Idle
            /\ pc' = "nb_loop"
            /\ UNCHANGED <<remote, env, args, reqlog, cl, uc, jb, ret, mainv, fs, console>>

-----------------------------------------------------------------------------
(* Workspace resolver and main *)

\* A URL string is its sequence of pieces, "https://" being one piece; the
\* value None is NoneStr.
NoneStr == <<NoneVal>>

startswith_https(u) == Len(u) >= 1 /\ u[1] = "https://"

replace_https(u) == SelectSeq(u, LAMBDA piece : piece # "https://")

\* get_workspace_url_from_cli on what `az databricks workspace list` did:
\* any exception (the tool missing, a non-zero exit under check=True, output
\* that is not JSON, an empty list, a first entry without workspaceUrl) is
\* printed and None is returned
get_workspace_url_from_cli(cli) ==
    IF "returncode" \notin DOMAIN cli \/ cli.returncode # 0 THEN NoneStr
    ELSE IF "json" \notin DOMAIN cli.stdout THEN NoneStr
    ELSE IF cli.stdout.json = <<>> THEN NoneStr
    ELSE IF "workspaceUrl" \notin DOMAIN cli.stdout.json[1] THEN NoneStr
    ELSE LET workspace_url == cli.stdout.json[1].workspaceUrl
             prefixed == IF startswith_https(workspace_url) THEN workspace_url
                         ELSE <<"https://">> \o workspace_url
         IN  replace_https(prefixed)

\* faulty variant: only a token that is None counts as missing
MissingTokenNoneOnly(token) == token = NoneVal

\* `not token`
MissingToken(token) == token = NoneVal \/ token = ""

\* `not workspace_url`
MissingUrl(workspace_url) == workspace_url = NoneStr \/ workspace_url = <<>>

OutputFile == "databricks_workspace_summary.json"

\* faulty variant: main runs the catalog walker before the warehouse collector
AfterCollectorSwapped(returned) ==
    CASE returned = "cl_return" -> "uc_start"
      [] returned = "uc_return" -> "wh_start"
      [] returned = "wh_return" -> "jb_start"
      [] returned = "jb_return" -> "nb_start"

\* where main goes on when a collector has returned
AfterCollector(returned) ==
    CASE returned = "cl_return" -> "wh_start"
      [] returned = "wh_return" -> "uc_start"
      [] returned = "uc_return" -> "jb_start"
      [] returned = "jb_return" -> "nb_start"

\* faulty variant: the summary is written without the notebooks
SummaryWithoutNotebooks(m) ==
    [clusters |-> m.cluster_info, sql_warehouses |-> m.sql_warehouses,
     unity_catalog |-> m.unity_catalog, jobs |-> m.jobs]

\* the summary dict built from main's locals
Summary(m) ==
    [clusters |-> m.cluster_info, sql_warehouses |-> m.sql_warehouses,
     unity_catalog |-> m.unity_catalog, jobs |-> m.jobs, notebooks |-> m.notebooks]

\* json.dump(summary, f, indent=2) into a file opened with "w"
WriteJson(files, name, value) ==
    Put(files, name,
        [format |-> "json", indent |-> 2, value |-> value,
         writes |-> Get(files, name, [writes |-> 0]).writes + 1])

\* load_config and the token check; sys.exit(1) raises NameError, the module
\* never imports sys
MainStart ==
    /\ pc = "main_start"
    /\ LET token == Get(env.config, "token", NoneVal)
       IN  IF MissingToken(token)
             THEN /\ console' = Append(console, <<"ERROR: Bearer token missing in config.json">>)
                  /\ mainv' = [config |-> env.config, token |-> token,
                               exception |-> "NameError"]
                  /\ pc' = "crashed"
             ELSE /\ mainv' = [config |-> env.config, token |-> token]
                  /\ pc' = "main_resolve"
                  /\ UNCHANGED console
    /\ UNCHANGED <<remote, env, args, rg, reqlog, cl, uc, jb, nbk, ret, fs>>

\* workspace_url = get_workspace_url_from_cli(); main returns without it,
\* or goes on to extract_cluster_info
MainResolve ==
    /\ pc = "main_resolve"
    /\ env' = [env EXCEPT !.cli_runs = @ + 1]
    /\ LET workspace_url == get_workspace_url_from_cli(env.cli)
           printed == IF workspace_url = NoneStr
                        THEN Append(console, <<"Failed to get workspace URL from CLI">>)
                        ELSE console
       IN  /\ mainv' = Put(mainv, "workspace_url", workspace_url)
           /\ IF MissingUrl(workspace_url)
                THEN /\ console' = Append(printed, <<"Could not determine workspace URL.">>)
                     /\ pc' = "main_returned"
                     /\ UNCHANGED args
                ELSE /\ console' = printed \o << <<"Workspace URL:", workspace_url>>,
                                                <<"Fetching cluster and library info...">> >>
                     /\ args' = [workspace_url |-> workspace_url, token |-> mainv.token]
                     /\ pc' = "cl_start"
    /\ UNCHANGED <<remote, rg, reqlog, cl, uc, jb, nbk, ret, fs>>

MainAfterClusters ==
    /\ pc = "cl_return"
    /\ mainv' = Put(mainv, "cluster_info", ret)
    /\ console' = console \o << <<"Clusters found:", Cardinality(DOMAIN ret)>>,
                               <<"Fetching SQL Warehouses...">> >>
    /\ pc' = AfterCollector("cl_return")
    /\ UNCHANGED <<remote, env, args, rg, reqlog, cl, uc, jb, nbk, ret, fs>>

MainAfterWarehouses ==
    /\ pc = "wh_return"
    /\ mainv' = Put(mainv, "sql_warehouses", ret)
    /\ console' = console \o << <<"SQL Warehouses found:", Len(ret)>>,
                               <<"Fetching Unity Catalog structure...">> >>
    /\ pc' = AfterCollector("wh_return")
    /\ UNCHANGED <<remote, env, args, rg, reqlog, cl, uc, jb, nbk, ret, fs>>

MainAfterCatalog ==
    /\ pc = "uc_return"
    /\ mainv' = Put(mainv, "unity_catalog", ret)
    /\ console' = console \o << <<"Unity Catalog entries found:", Len(ret)>>,
                               <<"Fetching Jobs and Runs...">> >>
    /\ pc' = AfterCollector("uc_return")
    /\ UNCHANGED <<remote, env, args, rg, reqlog, cl, uc, jb, nbk, ret, fs>>

MainAfterJobs ==
    /\ pc = "jb_return"
    /\ mainv' = Put(mainv, "jobs", ret)
    /\ console' = console \o << <<"Jobs found:", Len(ret)>>,
                               <<"Fetching Notebooks...">> >>
    /\ pc' = AfterCollector("jb_return")
    /\ UNCHANGED <<remote, env, args, rg, reqlog, cl, uc, jb, nbk, ret, fs>>

\* the notebooks arrive, the summary is built and written
MainWrite ==
    /\ pc = "nb_return"
    /\ LET m == Put(mainv, "notebooks", ret)
       IN  /\ mainv' = Put(m, "summary", Summary(m))
           /\ fs' = WriteJson(fs, OutputFile, Summary(m))
    /\ console' = console \o << <<"Notebooks found:", Len(ret)>>,
                               <<"Summary saved to", OutputFile>> >>
    /\ pc' = "main_done"
    /\ UNCHANGED <<remote, env, args, rg, reqlog, cl, uc, jb, nbk, ret>>

-----------------------------------------------------------------------------
(* Bounded inputs *)

MaxClusters == 2
MaxStatuses == 2

SeqsUpTo(S, n) == UNION {[1..k -> S] : k \in 0..n}

Host == "adb-1.azuredatabricks.net"

\* the workspace of the end-to-end scenario: two clusters (one with a wheel),
\* and what the other collectors read (filled in below)
BaseClusters ==
    [clusters |->
        << [cluster_id |-> "c1", cluster_name |-> "etl", state |-> "RUNNING",
            spark_version |-> "13.3.x-scala2.12"],
           [cluster_id |-> "c2", cluster_name |-> "adhoc", state |-> "TERMINATED"] >>]

WhlStatus == [library |-> [whl |-> "dbfs:/libs/a.whl"], status |-> "INSTALLED"]
JarEggStatus == [library |-> [egg |-> "dbfs:/libs/b.egg", jar |-> "dbfs:/libs/b.jar"],
                 status |-> "PENDING"]
PypiStatus == [library |-> [pypi |-> [package |-> "requests"]]]

BaseStatuses ==
    [statuses |-> << [cluster_id |-> "c1", library_statuses |-> <<WhlStatus>>] >>]

\* schema and table names, as character sequences
UpperInfo ==
    <<"I", "N", "F", "O", "R", "M", "A", "T", "I", "O", "N", "_",
      "S", "C", "H", "E", "M", "A">>
MixedInfo ==
    <<"I", "n", "f", "o", "r", "m", "a", "t", "i", "o", "n", "_",
      "S", "c", "h", "e", "m", "a">>
Sales == <<"s", "a", "l", "e", "s">>
Info == <<"i", "n", "f", "o">>

SchemaNames == {INFORMATION_SCHEMA, UpperInfo, MixedInfo, Sales, Info}
CatalogNames == {"main", "dev"}

\* the tables the API serves for a schema (a system schema has tables too)
ServedTables(c, s) ==
    IF s = Sales
      THEN [tables |-> << [name |-> "orders", table_type |-> "MANAGED"],
                          [name |-> "customers"] >>]
    ELSE IF s = Info THEN EmptyDict
    ELSE [tables |-> << [name |-> "columns", table_type |-> "VIEW"] >>]

AllTables == [k \in CatalogNames \X SchemaNames |-> ServedTables(k[1], k[2])]

BaseWorld ==
    [clusters |-> BaseClusters, statuses |-> BaseStatuses,
     catalogs |-> [catalogs |-> << [name |-> "main"] >>],
     schemas |-> [c \in {"main"} |->
                    [schemas |-> << [name |-> INFORMATION_SCHEMA], [name |-> Sales] >>]],
     tables |-> AllTables,
     warehouses |-> [warehouses |-> << [name |-> "wh1", state |-> "RUNNING"] >>],
     jobs |-> [jobs |-> << [job_id |-> 7] >>],
     job_details |-> [j \in {7} |-> [job_id |-> 7, settings |-> [name |-> "nightly"]]],
     runs |-> [j \in {7} |->
                << [run_id |-> 71, start_time |-> 1500,
                    state |-> [life_cycle_state |-> "RUNNING"]],
                   [run_id |-> 70, start_time |-> 0, end_time |-> 2000,
                    state |-> [life_cycle_state |-> "TERMINATED",
                               result_state |-> "SUCCESS"]] >>],
     tree |-> [p \in {"/"} |->
                [objects |-> << [path |-> "/nb1", object_type |-> "NOTEBOOK"] >>]],
     status |-> [p \in {"/nb1"} |-> [language |-> "PYTHON"]],
     export |-> [p \in {"/nb1"} |->
                [content |-> [b64 |-> << <<[pct |-> TRUE, word |-> <<"s", "c", "a", "l", "a">>]>> >>]]]]

MaxObjects == 2

DistinctSeqsUpTo(S, n) ==
    {s \in SeqsUpTo(S, n) : \A i, j \in DOMAIN s : s[i] = s[j] => i = j}

\* the directory tree: the root lists up to MaxObjects of a notebook, a
\* directory and a library; /d holds a notebook and the directory /d/e
RootObjects ==
    { [path |-> "/a", object_type |-> "NOTEBOOK"],
      [path |-> "/d", object_type |-> "DIRECTORY"],
      [path |-> "/lib", object_type |-> "LIBRARY"] }

TreeWith(root) ==
    ("/" :> [objects |-> root]) @@
    ("/d" :> [objects |-> << [path |-> "/d/x", object_type |-> "NOTEBOOK"],
                            [path |-> "/d/e", object_type |-> "DIRECTORY"] >>]) @@
    ("/d/e" :> [objects |-> << [path |-> "/d/e/y", object_type |-> "NOTEBOOK"] >>])

NotebookStatus ==
    ("/a" :> [language |-> "PYTHON"]) @@ ("/d/x" :> [language |-> "SQL"]) @@
    ("/d/e/y" :> EmptyDict)

NotebookExport ==
    ("/a" :> [content |->
                [b64 |-> << <<[pct |-> TRUE, word |-> <<"S", "Q", "L">>],
                              [pct |-> FALSE, word |-> <<"r", "u", "n">>]>>,
                            <<[pct |-> TRUE, word |-> <<"r", "u", "n">>]>>,
                            <<[pct |-> TRUE, word |-> <<"s", "q", "l">>],
                              [pct |-> TRUE, word |-> <<"f", "o", "o">>]>> >>]]) @@
    ("/d/x" :> [content |-> [not_base64 |-> TRUE]]) @@
    ("/d/e/y" :> EmptyDict)

MaxCatalogs == 2
MaxSchemas == 2

CatalogBodies ==
    {EmptyDict} \cup
    {[catalogs |-> s] : s \in SeqsUpTo({[name |-> c] : c \in CatalogNames}, MaxCatalogs)}

SchemaBodies ==
    {EmptyDict} \cup
    {[schemas |-> s] : s \in SeqsUpTo({[name |-> n] : n \in SchemaNames}, MaxSchemas)}

ClusterIds == {"c1", "c2"}
ClusterNames == {"etl", "adhoc"}

ClusterEntries ==
    {[cluster_id |-> i, cluster_name |-> n, state |-> "RUNNING"] :
        i \in ClusterIds, n \in ClusterNames}

StatusEntries ==
    {[cluster_id |-> i, library_statuses |-> ls] :
        i \in ClusterIds, ls \in {<<WhlStatus>>, <<JarEggStatus, PypiStatus>>}}

\* bodies of the cluster list and of the library statuses; either may lack
\* its key
ClusterBodies == {EmptyDict} \cup {[clusters |-> s] : s \in SeqsUpTo(ClusterEntries, MaxClusters)}
StatusBodies == {EmptyDict} \cup {[statuses |-> s] : s \in SeqsUpTo(StatusEntries, MaxStatuses)}

-----------------------------------------------------------------------------
(* Specifications *)

InitLocals ==
    /\ rg = Idle
    /\ reqlog = <<>>
    /\ cl = EmptyDict
    /\ uc = EmptyDict
    /\ jb = EmptyDict
    /\ nbk = EmptyDict
    /\ ret = NoneVal
    /\ mainv = EmptyDict
    /\ fs = EmptyDict
    /\ console = <<>>

\* extract_cluster_info(workspace_url, token) called on its own
InitClusters ==
    /\ remote \in {[BaseWorld EXCEPT !.clusters = c, !.statuses = s] :
                        c \in ClusterBodies, s \in StatusBodies}
    /\ env = EmptyDict
    /\ args = [workspace_url |-> <<Host>>, token |-> "dapi-token"]
    /\ pc = "cl_start"
    /\ InitLocals

NextClusters ==
    \/ ClStart
    \/ ClGotClusters
    \/ ClGotLibs
    \/ RobustGetAttempt

\* what `az databricks workspace list --output json` can do
CliResults ==
    { [error |-> "FileNotFoundError"],
      [returncode |-> 1, stdout |-> [text |-> ""]],
      [returncode |-> 0, stdout |-> [text |-> "not json"]],
      [returncode |-> 0, stdout |-> [json |-> <<>>]],
      [returncode |-> 0, stdout |-> [json |-> << [name |-> "ws"] >>]],
      [returncode |-> 0, stdout |-> [json |-> << [name |-> "ws", workspaceUrl |-> <<>>] >>]],
      [returncode |-> 0, stdout |-> [json |-> << [name |-> "ws", workspaceUrl |-> <<Host>>] >>]],
      [returncode |-> 0,
       stdout |-> [json |-> << [name |-> "ws", workspaceUrl |-> <<"https://", Host>>],
                               [name |-> "other", workspaceUrl |-> <<"adb-2.azuredatabricks.net">>] >>]] }

Configs == { EmptyDict, [token |-> ""], [token |-> "dapi-token"] }

\* main() on the workspace of the end-to-end scenario
Init ==
    /\ remote = BaseWorld
    /\ env \in {[config |-> c, cli |-> x, cli_runs |-> 0] : c \in Configs, x \in CliResults}
    /\ args = EmptyDict
    /\ pc = "main_start"
    /\ InitLocals

Next ==
    \/ MainStart
    \/ MainResolve
    \/ ClStart
    \/ ClGotClusters
    \/ ClGotLibs
    \/ MainAfterClusters
    \/ WhStart
    \/ WhGotList
    \/ MainAfterWarehouses
    \/ UcStart
    \/ UcGotCatalogs
    \/ UcCatalogLoop
    \/ UcGotSchemas
    \/ UcSchemaLoop
    \/ UcGotTables
    \/ MainAfterCatalog
    \/ JbStart
    \/ JbGotList
    \/ JbLoop
    \/ JbGotDetail
    \/ JbGotRuns
    \/ MainAfterJobs
    \/ NbStart
    \/ NbGotList
    \/ NbLoop
    \/ NbGotStatus
    \/ NbGotExport
    \/ MainWrite
    \/ RobustGetAttempt

Spec == Init /\ [][Next]_vars

SpecClusters == InitClusters /\ [][NextClusters]_vars

\* collect_unity_catalog_structure(workspace_url, token) called on its own;
\* every catalog serves the same schema list
InitCatalog ==
    /\ remote \in {[BaseWorld EXCEPT !.catalogs = c, !.schemas = [k \in CatalogNames |-> s]] :
                        c \in CatalogBodies, s \in SchemaBodies}
    /\ env = EmptyDict
    /\ args = [workspace_url |-> <<Host>>, token |-> "dapi-token"]
    /\ pc = "uc_start"
    /\ InitLocals

NextCatalog ==
    \/ UcStart
    \/ UcGotCatalogs
    \/ UcCatalogLoop
    \/ UcGotSchemas
    \/ UcSchemaLoop
    \/ UcGotTables
    \/ RobustGetAttempt

SpecCatalog == InitCatalog /\ [][NextCatalog]_vars

\* list_notebooks_for_workspace(workspace_url, token) called on its own
InitNotebooks ==
    /\ remote \in {[BaseWorld EXCEPT !.tree = TreeWith(root), !.status = NotebookStatus,
                                     !.export = NotebookExport] :
                        root \in DistinctSeqsUpTo(RootObjects, MaxObjects)}
    /\ env = EmptyDict
    /\ args = [workspace_url |-> <<Host>>, token |-> "dapi-token"]
    /\ pc = "nb_start"
    /\ InitLocals

NextNotebooks ==
    \/ NbStart
    \/ NbGotList
    \/ NbLoop
    \/ NbGotStatus
    \/ NbGotExport
    \/ RobustGetAttempt

SpecNotebooks == InitNotebooks /\ [][NextNotebooks]_vars

-----------------------------------------------------------------------------
(* Claims about the cluster and library collector (SpecClusters) *)

\* how the call to an endpoint ended, read from the log
FetchFailed(api) == \E i \in DOMAIN reqlog : reqlog[i].req.api = api /\ reqlog[i].result = "fail"
FetchOk(api) == \E i \in DOMAIN reqlog : reqlog[i].req.api = api /\ reqlog[i].result = "ok"

ClustersApi == "/api/2.0/clusters/list"
LibrariesApi == "/api/2.0/libraries/all-cluster-statuses"

ServedClusters == Get(remote.clusters, "clusters", <<>>)
ServedStatuses == Get(remote.statuses, "statuses", <<>>)

\* C4 as stated: a failure of either fetch empties the collector's result.
C4_AllOrNothing ==
    (pc = "cl_return" /\ (FetchFailed(ClustersApi) \/ FetchFailed(LibrariesApi)))
        => ret = EmptyDict

\* C4 amended: only a failed cluster-list fetch empties the result; when the
\* cluster list arrived and only the library fetch failed, the result holds
\* the listed clusters' records (one per cluster name), each with an empty
\* library list.
C4_PerFetch ==
    pc = "cl_return" =>
        /\ FetchFailed(ClustersApi) => ret = EmptyDict
        /\ (FetchOk(ClustersApi) /\ FetchFailed(LibrariesApi)) =>
              /\ DOMAIN ret = {ServedClusters[i].cluster_name : i \in DOMAIN ServedClusters}
              /\ \A k \in DOMAIN ret :
                    /\ ret[k].custom_libraries = <<>>
                    /\ \E i \in DOMAIN ServedClusters :
                          /\ ServedClusters[i].cluster_name = k
                          /\ ServedClusters[i].cluster_id = ret[k].cluster_id

\* the library fetch failed although statuses with libraries exist, the
\* cluster list arrived, and records were returned
C4_Witness ==
    /\ pc = "cl_return"
    /\ FetchOk(ClustersApi) /\ FetchFailed(LibrariesApi)
    /\ ret # EmptyDict
    /\ \E i \in DOMAIN ServedStatuses :
          \E k \in DOMAIN ret : ret[k].cluster_id = ServedStatuses[i].cluster_id

DistinctIds(clusters) ==
    \A i, j \in DOMAIN clusters : clusters[i].cluster_id = clusters[j].cluster_id => i = j

\* C10 as stated: with both fetches successful, every listed cluster (ids
\* distinct, names possibly shared) has a record carrying its id whose
\* libraries are those of a status entry with the same id (none: empty),
\* and there are as many records as clusters.
C10_JoinById ==
    (pc = "cl_return" /\ FetchOk(ClustersApi) /\ FetchOk(LibrariesApi)
        /\ DistinctIds(ServedClusters)) =>
        /\ Cardinality(DOMAIN ret) = Len(ServedClusters)
        /\ \A i \in DOMAIN ServedClusters :
              \E k \in DOMAIN ret :
                 /\ ret[k].cluster_id = ServedClusters[i].cluster_id
                 /\ IF \E j \in DOMAIN ServedStatuses :
                          ServedStatuses[j].cluster_id = ServedClusters[i].cluster_id
                      THEN \E j \in DOMAIN ServedStatuses :
                              /\ ServedStatuses[j].cluster_id = ServedClusters[i].cluster_id
                              /\ ret[k].custom_libraries = ShapeLibraries(ServedStatuses[j])
                      ELSE ret[k].custom_libraries = <<>>

-----------------------------------------------------------------------------
(* Claims about the catalog walker (SpecCatalog) *)

CatalogsApi == "/api/2.1/unity-catalog/catalogs"
SchemasApi == "/api/2.1/unity-catalog/schemas"
TablesApi == "/api/2.1/unity-catalog/tables"

RECURSIVE Flatten(_)
Flatten(ss) == IF ss = <<>> THEN <<>> ELSE Head(ss) \o Flatten(Tail(ss))

IsPrefix(a, b) == Len(a) <= Len(b) /\ SubSeq(b, 1, Len(a)) = a

\* the name is "information_schema" up to the case of its letters
IsInfoSpelling(name) ==
    /\ Len(name) = Len(INFORMATION_SCHEMA)
    /\ \A i \in DOMAIN name :
          \/ name[i] = INFORMATION_SCHEMA[i]
          \/ name[i] \in DOMAIN LowerMap /\ LowerMap[name[i]] = INFORMATION_SCHEMA[i]

ServedCatalogs == Get(remote.catalogs, "catalogs", <<>>)
ServedSchemas(c) == Get(Get(remote.schemas, c, EmptyDict), "schemas", <<>>)

\* the tuples of one schema's tables, in the order served
RowsOf(c, s) ==
    LET tables == Get(Get(remote.tables, <<c, s>>, EmptyDict), "tables", <<>>)
    IN  [i \in DOMAIN tables |->
            [catalog |-> c, schema |-> s, table |-> tables[i].name,
             table_type |-> IF "table_type" \in DOMAIN tables[i]
                              THEN tables[i].table_type ELSE NoneVal]]

\* the tuples of a failure-free walk, in catalog, schema, table order
FullWalk ==
    Flatten([i \in DOMAIN ServedCatalogs |->
        LET c == ServedCatalogs[i].name
            schemas == ServedSchemas(c)
        IN  Flatten([j \in DOMAIN schemas |->
                IF IsInfoSpelling(schemas[j].name) THEN <<>>
                ELSE RowsOf(c, schemas[j].name)])])

\* the tuples of the table lists that arrived, in request order
RowsReceived ==
    Flatten([i \in DOMAIN reqlog |->
        IF reqlog[i].req.api = TablesApi /\ reqlog[i].result = "ok"
          THEN RowsOf(reqlog[i].req.params.catalog_name, reqlog[i].req.params.schema_name)
          ELSE <<>>])

AnyFetchFailed == \E i \in DOMAIN reqlog : reqlog[i].result = "fail"

\* C5: a failed fetch at any level is the walker's last request, the walker
\* returns without raising, and what it returns is exactly the tuples of the
\* table lists received before the failure: a prefix of the failure-free walk.
C5_FailFastPartial ==
    /\ \A i \in DOMAIN reqlog : reqlog[i].result = "fail" => i = Len(reqlog)
    /\ pc # "crashed"
    /\ AnyFetchFailed => pc \in {"uc_catalogs", "uc_schemas", "uc_tables", "uc_return"}
    /\ pc = "uc_return" => ret = RowsReceived /\ IsPrefix(ret, FullWalk)

\* a table fetch failed after tuples had been accumulated and before the
\* walk was complete
C5_Witness ==
    /\ pc = "uc_return"
    /\ AnyFetchFailed
    /\ ret # <<>>
    /\ Len(ret) < Len(FullWalk)

\* C9: no table-list request names a schema spelled "information_schema" in
\* any casing, no returned tuple carries such a schema, and in a walk without
\* failure every other schema of every catalog is requested and the result is
\* the full walk without the system schemas.
C9_NoInformationSchema ==
    /\ \A i \in DOMAIN reqlog :
          reqlog[i].req.api = TablesApi => ~IsInfoSpelling(reqlog[i].req.params.schema_name)
    /\ pc = "uc_return" =>
          /\ \A i \in DOMAIN ret : ~IsInfoSpelling(ret[i].schema)
          /\ ~AnyFetchFailed =>
                /\ ret = FullWalk
                /\ \A i \in DOMAIN ServedCatalogs :
                      \A j \in DOMAIN ServedSchemas(ServedCatalogs[i].name) :
                         LET s == ServedSchemas(ServedCatalogs[i].name)[j].name IN
                         ~IsInfoSpelling(s) =>
                            \E k \in DOMAIN reqlog :
                               /\ reqlog[k].req.api = TablesApi
                               /\ reqlog[k].req.params =
                                    [catalog_name |-> ServedCatalogs[i].name, schema_name |-> s]

\* a catalog serves an upper-case INFORMATION_SCHEMA before the schema sales;
\* the walk finished and returned the tables of sales
C9_Witness ==
    /\ pc = "uc_return"
    /\ ~AnyFetchFailed
    /\ \E i \in DOMAIN ServedCatalogs :
          LET schemas == ServedSchemas(ServedCatalogs[i].name) IN
          /\ Len(schemas) = 2
          /\ schemas[1].name = UpperInfo
          /\ schemas[2].name = Sales
    /\ \E i \in DOMAIN ret : ret[i].schema = Sales

-----------------------------------------------------------------------------
(* Claims about the notebook walker (SpecNotebooks) *)

ListApi == "/api/2.0/workspace/list"
StatusApi == "/api/2.0/workspace/get-status"
ExportApi == "/api/2.0/workspace/export"

\* the call to an endpoint for a path failed
PathFetchFailed(api, p) ==
    \E i \in DOMAIN reqlog :
       /\ reqlog[i].req.api = api
       /\ reqlog[i].req.params.path = p
       /\ reqlog[i].result = "fail"

ServedObjects(p) == Get(Get(remote.tree, p, EmptyDict), "objects", <<>>)

\* the notebooks under a directory in depth-first order, a directory whose
\* listing failed contributing none
RECURSIVE NotebooksUnder(_)
NotebooksUnder(p) ==
    IF PathFetchFailed(ListApi, p) THEN <<>>
    ELSE LET objs == ServedObjects(p)
         IN  Flatten([i \in DOMAIN objs |->
                 IF objs[i].object_type = "NOTEBOOK" THEN <<objs[i].path>>
                 ELSE IF objs[i].object_type = "DIRECTORY" THEN NotebooksUnder(objs[i].path)
                 ELSE <<>>])

\* the record of a notebook in a walk without failure
NoFailureRecord(p) ==
    LET served == Get(remote.status, p, EmptyDict)
        body == Get(remote.export, p, EmptyDict)
        found == detect_embedded_magics(Get(body, "content", EmptyString))
    IN  [path |-> p,
         default_language |-> IF "language" \in DOMAIN served THEN served.language
                              ELSE "unknown",
         embedded_languages |-> found.langs,
         other_magics |-> found.others]

\* the same record with the failed parts replaced
ExpectedRecord(p) ==
    LET r == NoFailureRecord(p)
    IN  [path |-> p,
         default_language |-> IF PathFetchFailed(StatusApi, p) THEN "unknown"
                              ELSE r.default_language,
         embedded_languages |-> IF PathFetchFailed(ExportApi, p) THEN {}
                                ELSE r.embedded_languages,
         other_magics |-> IF PathFetchFailed(ExportApi, p) THEN {} ELSE r.other_magics]

\* C6: the walker never raises, and it returns one record per notebook of
\* the tree in depth-first order: the record of a failure-free walk, except
\* that a notebook whose language fetch failed has language "unknown" and one
\* whose content fetch failed has no magics.
C6_PerNotebookIsolation ==
    /\ pc # "crashed"
    /\ pc = "nb_return" =>
          LET visited == NotebooksUnder("/")
          IN  ret = [i \in DOMAIN visited |-> ExpectedRecord(visited[i])]

\* both fetches of /a (which has magics) failed; a later notebook with a
\* declared language was still recorded in full
C6_Witness ==
    /\ pc = "nb_return"
    /\ \E i, j \in DOMAIN ret :
          /\ i < j
          /\ ret[i].path = "/a"
          /\ PathFetchFailed(StatusApi, "/a") /\ PathFetchFailed(ExportApi, "/a")
          /\ NoFailureRecord("/a").embedded_languages # {}
          /\ ret[i].default_language = "unknown" /\ ret[i].embedded_languages = {}
          /\ ~PathFetchFailed(StatusApi, ret[j].path)
          /\ ~PathFetchFailed(ExportApi, ret[j].path)
          /\ ret[j] = NoFailureRecord(ret[j].path)
          /\ ret[j].default_language # "unknown"

-----------------------------------------------------------------------------
(* Claims about robust_get and main (Spec) *)

\* C1 reads "failure" as a transport error or a status that is not 2xx
FailureAsStated(o) ==
    "exc" \in DOMAIN o \/ ~(o.status_code >= 200 /\ o.status_code <= 299)

\* a transport error or a 4xx/5xx status
FailureByStatusError(o) ==
    "exc" \in DOMAIN o \/ (o.status_code >= 400 /\ o.status_code <= 599)

\* The retry rule for a call r, given what counts as a failed attempt: never
\* more than 3 attempts; a call that returned did so on a successful attempt
\* and hands back that attempt's response; a call that surfaced a failure
\* made exactly 3 attempts, the last one failed; a call still in progress
\* has made fewer than 3 attempts, all failed.
RetryRule(r, IsFailure(_)) ==
    r.state # "idle" =>
        /\ r.attempt_number <= 3
        /\ r.state = "returned" =>
              /\ r.attempt_number >= 1
              /\ ~IsFailure(r.outcome)
              /\ r.response.status_code = r.outcome.status_code
        /\ r.state = "raised" => r.attempt_number = 3 /\ IsFailure(r.outcome)
        /\ r.state = "pending" =>
              /\ r.attempt_number < 3
              /\ r.attempt_number > 0 => IsFailure(r.outcome)

\* this step made one more attempt of the call in progress
AttemptMade ==
    /\ rg.state # "idle" /\ rg'.state # "idle"
    /\ rg'.attempt_number = rg.attempt_number + 1

\* C1 as stated (failure = transport error or non-2xx status): attempts are
\* made only while the call is in progress, i.e. after failures only, and the
\* retry rule holds after every step.
C1_RetryAsStated ==
    [][(AttemptMade => rg.state = "pending") /\ RetryRule(rg', FailureAsStated)]_vars

\* C1 amended: the same with failure = transport error or 4xx/5xx status (what
\* requests.get and raise_for_status raise); a final response with any other
\* status is returned at once.
C1_RetryOnStatusError ==
    [][(AttemptMade => rg.state = "pending") /\ RetryRule(rg', FailureByStatusError)]_vars

\* a call returned a 200 response on its third attempt
C1_Witness ==
    /\ rg.state = "returned"
    /\ rg.attempt_number = 3
    /\ rg.outcome = [status_code |-> 200]

\* the collector a request belongs to, 1..5 in main's order
CollectorOf(api) ==
    CASE api \in {ClustersApi, LibrariesApi} -> 1
      [] api = "/api/2.0/sql/warehouses" -> 2
      [] api \in {CatalogsApi, SchemasApi, TablesApi} -> 3
      [] api \in {"/api/2.1/jobs/list", "/api/2.1/jobs/get", "/api/2.1/jobs/runs/list"} -> 4
      [] api \in {ListApi, StatusApi, ExportApi} -> 5

Collectors == 1..5
ResultNames == <<"cluster_info", "sql_warehouses", "unity_catalog", "jobs", "notebooks">>
SectionNames == <<"clusters", "sql_warehouses", "unity_catalog", "jobs", "notebooks">>

Issued(k) == {i \in DOMAIN reqlog : CollectorOf(reqlog[i].req.api) = k}
AllFailed(k) == Issued(k) # {} /\ \A i \in Issued(k) : reqlog[i].result = "fail"
AllOk(k) == Issued(k) # {} /\ \A i \in Issued(k) : reqlog[i].result = "ok"

Written == OutputFile \in DOMAIN fs
WrittenSummary == fs[OutputFile].value

TokenMissing == "token" \notin DOMAIN env.config \/ env.config.token = ""

\* the CLI gave no usable first workspace: it could not be run, exited
\* non-zero, printed something that is not JSON, an empty list, or a first
\* entry without workspaceUrl
CliFails ==
    ~ /\ "returncode" \in DOMAIN env.cli
      /\ env.cli.returncode = 0
      /\ "json" \in DOMAIN env.cli.stdout
      /\ Len(env.cli.stdout.json) > 0
      /\ "workspaceUrl" \in DOMAIN env.cli.stdout.json[1]

Terminal == {"main_done", "main_returned", "crashed"}

\* C2: once collection has begun main never ends in an exception and never
\* stops before the file is written; in the written summary the section of a
\* collector whose requests all failed is empty, and the section of a
\* collector whose requests all succeeded is populated.
C2_FailedCollectorYieldsEmpty ==
    /\ reqlog # <<>> => pc # "crashed"
    /\ pc \notin Terminal => ENABLED Next
    /\ pc = "main_done" =>
          /\ Written
          /\ \A k \in Collectors :
                /\ Issued(k) # {}
                /\ AllFailed(k) => WrittenSummary[SectionNames[k]] = <<>>
                /\ AllOk(k) => WrittenSummary[SectionNames[k]] # <<>>

\* every request of the notebook walker failed, all others succeeded, and
\* the file was written with an empty notebooks section and four populated
\* ones
C2_Witness ==
    /\ pc = "main_done"
    /\ AllFailed(5)
    /\ \A k \in 1..4 : AllOk(k)
    /\ Written
    /\ WrittenSummary.notebooks = <<>>
    /\ \A k \in 1..4 : WrittenSummary[SectionNames[k]] # <<>>

\* C3: with no or an empty token, or with a CLI that yields no workspace,
\* main issues no request and writes no file, and ends by the token error or
\* by returning after the resolver; with the token missing the resolver is
\* never run.
C3_FatalBeforeCollection ==
    /\ (TokenMissing \/ CliFails) =>
          /\ reqlog = <<>>
          /\ rg = Idle
          /\ fs = EmptyDict
          /\ pc \in {"main_start", "main_resolve", "main_returned", "crashed"}
    /\ TokenMissing => env.cli_runs = 0 /\ pc \in {"main_start", "crashed"}
    /\ pc = "main_returned" => env.cli_runs = 1 /\ MissingUrl(mainv.workspace_url)

\* the token is there, the CLI listed no workspace, and main has returned
C3_Witness ==
    /\ pc = "main_returned"
    /\ ~TokenMissing
    /\ CliFails
    /\ env.cli.returncode = 0 /\ env.cli.stdout = [json |-> <<>>]
    /\ env.cli_runs = 1

\* C7: the resolver runs once, before any request; requests are logged in
\* the collectors' order; only the last logged request can be in flight;
\* a collector's first request comes after all earlier collectors have
\* returned to main; the file is written once, after all five returned.
C7_SequentialOrder ==
    /\ env.cli_runs <= 1
    /\ reqlog # <<>> => env.cli_runs = 1 /\ "workspace_url" \in DOMAIN mainv
    /\ \A i \in DOMAIN reqlog :
          /\ reqlog[i].result = "pending" => i = Len(reqlog) /\ rg.state = "pending"
          /\ \A j \in DOMAIN reqlog :
                i < j => CollectorOf(reqlog[i].req.api) <= CollectorOf(reqlog[j].req.api)
          /\ \A k \in Collectors :
                k < CollectorOf(reqlog[i].req.api) => ResultNames[k] \in DOMAIN mainv
    /\ \A k \in Collectors :
          ResultNames[k] \in DOMAIN mainv =>
             /\ Issued(k) # {}
             /\ \A i \in Issued(k) : reqlog[i].result # "pending"
    /\ Written =>
          /\ fs[OutputFile].writes = 1
          /\ \A k \in Collectors : ResultNames[k] \in DOMAIN mainv
          /\ rg = Idle

\* main has written the file after requests of all five collectors
C7_Witness ==
    /\ pc = "main_done"
    /\ Written
    /\ \A k \in Collectors : Issued(k) # {}

FiveCollections == {"clusters", "sql_warehouses", "unity_catalog", "jobs", "notebooks"}

\* C8 as stated: the written summary holds the five collections and, under
\* some further key, the workspace identifier.
C8_SummaryWithWorkspace ==
    Written =>
        /\ FiveCollections \subseteq DOMAIN WrittenSummary
        /\ \E k \in DOMAIN WrittenSummary \ FiveCollections :
              WrittenSummary[k] = mainv.workspace_url

\* C8 amended: the written summary holds exactly the five collections, each
\* as its collector returned it, and nothing else (the workspace identifier
\* is printed, not written).
C8_FiveCollectionsOnly ==
    Written =>
        /\ DOMAIN WrittenSummary = FiveCollections
        /\ \A k \in Collectors : WrittenSummary[SectionNames[k]] = mainv[ResultNames[k]]
        /\ \E i \in DOMAIN console : console[i] = <<"Workspace URL:", mainv.workspace_url>>

\* the file was written with all five sections populated
C8_Witness ==
    /\ Written
    /\ \A k \in Collectors : WrittenSummary[SectionNames[k]] # <<>>

====
